---------------------------- MODULE Spec2Model ----------------------------
(***************************************************************************)
(* Model of agent/lambda/agent-handler/lambda_function.py: the Lex V2      *)
(* fulfilment handler that routes one conversation turn to an intent       *)
(* handler and returns a turn-control directive.                           *)
(*                                                                         *)
(* Python values are modelled as follows.  A dict is a function whose      *)
(* domain is its key set (the empty dict is << >>), so a missing key is a  *)
(* key outside DOMAIN.  None is the string None where a string is expected *)
(* and the record PyNone where a dict is expected.  A call's outcome is    *)
(* Return(v) or Raise(exc, arg).  A multi-line message literal is the      *)
(* sequence of its lines, an f-string the sequence of its parts.           *)
(***************************************************************************)
EXTENDS Integers, Sequences, FiniteSets, TLC

VARIABLES
    pc,        \* position of the current invocation
    event,     \* the turn event object handed to handler()
    entry,     \* the event and the Turn Memory as they were when handler() was entered
    route,     \* the intent handler dispatch() called
    frame,     \* locals of genai_intent / invoke_agent
    calls,     \* external calls made by the current invocation, in order
    memory,    \* Turn Memory Store: session id -> sequence of <<role, content>>
    result,    \* outcome of dispatch(): a returned directive or a raised error
    holder,    \* argument of a direct try_ex call
    accessed   \* outcome of that call

vars == <<pc, event, entry, route, frame, calls, memory, result, holder, accessed>>

----------------------------------------------------------------------------
(* Bounds *)

\* Largest number of records the Turn Memory Store holds before the platform
\* stops sending turns.
MaxMemory == 3

\* Longest resolvedValues list of a slot value holder given to try_ex directly.
MaxResolved == 2

----------------------------------------------------------------------------
(* Python values *)

None == "<None>"
PyNone == [py |-> "None"]
EmptyDict == << >>

HasKey(d, k) == k \in DOMAIN d

\* truth value of a str-or-None
Truthy(s) == s # None /\ s # ""

\* truth value of a dict-or-None
DictTruthy(d) == d # PyNone /\ d # EmptyDict

Return(v) == [kind |-> "return", value |-> v]
Raise(exc, arg) == [kind |-> "raise", exc |-> exc, arg |-> arg]

Pending == [kind |-> "pending"]

RECURSIVE SeqsUpTo(_, _)
SeqsUpTo(S, n) ==
    IF n = 0 THEN {<< >>}
    ELSE LET shorter == SeqsUpTo(S, n - 1)
         IN shorter \cup {Append(s, x) : s \in {t \in shorter : Len(t) = n - 1}, x \in S}

----------------------------------------------------------------------------
(* Input domains *)

IntentNames == {"VerifyIdentity", "Emergencyhelpline", "FallbackIntent", "BookHotel"}
HandledIntents == {"VerifyIdentity", "Emergencyhelpline"}
SessionIds == {"s1", "s2"}
Transcripts == {"hello", "help me"}
InvocationSources == {"DialogCodeHook", "FulfillmentCodeHook"}
\* what the generation service may answer
Texts == {"t1", "t2"}

RawValues == {"", "1", "2", "3", "4", "5", "9", "alex"}
ResolvedValues == {"1", "2", "alex"}
InterpretedValues == {"", "1", "2", "alex"}

\* a key that may be missing: the fragments << >> and (k :> v)
Optional(k, S) == {EmptyDict} \cup {k :> v : v \in S}

\* A slot value holder as Lex V2 sends it: all three fields, each possibly empty.
SlotValue(r, i, o) ==
    [value |-> [resolvedValues |-> r, interpretedValue |-> i, originalValue |-> o]]

\* every slot value holder try_ex is checked on
SlotHolders ==
    {PyNone} \cup
    {SlotValue(r, i, o) :
        r \in SeqsUpTo(ResolvedValues, MaxResolved),
        i \in InterpretedValues \cup {None},
        o \in RawValues \cup {None}}

\* the holders turn events carry
EventHolders ==
    {PyNone} \cup
    {SlotValue(<< >>, None, o) : o \in RawValues \cup {None}} \cup
    {SlotValue(r, i, "3") : r \in {<<"1">>, <<"alex", "1">>}, i \in {"1", "2", "alex"}}

\* the slots Lex defines for an intent
SlotNames(n) ==
    IF n = "VerifyIdentity" THEN {"UserName"}
    ELSE IF n = "Emergencyhelpline" THEN {"Selection"}
    ELSE {}

SlotMaps(n) == {EmptyDict} \cup {k :> h : k \in SlotNames(n), h \in EventHolders}

SessionAttributeValues == {PyNone, EmptyDict, [k |-> "v"]}

\* Only the handlers that read `slots` with .get, or not at all, are given
\* intents without the key.
Intents(n) ==
    {[name |-> n] @@ fs @@ fc :
        fs \in IF n = "VerifyIdentity"
               THEN {"slots" :> m : m \in SlotMaps(n)}
               ELSE Optional("slots", SlotMaps(n)),
        fc \in IF n \in HandledIntents
               THEN Optional("confirmationState", {"Confirmed"})
               ELSE {EmptyDict}}

SessionStates(n) ==
    {[intent |-> i] @@ fa :
        i \in Intents(n), fa \in Optional("sessionAttributes", SessionAttributeValues)}

\* The turn events of intent n.  The two intent handlers read neither the
\* session id nor the transcript, so their events carry one of each.
EventsOf(n) ==
    {[sessionState |-> ss, sessionId |-> sid, invocationSource |-> src,
      inputTranscript |-> tr] :
        ss \in SessionStates(n),
        sid \in IF n \in HandledIntents THEN {"s1"} ELSE SessionIds,
        src \in InvocationSources,
        tr \in IF n \in HandledIntents THEN {"hello"} ELSE Transcripts}

Events == UNION {EventsOf(n) : n \in IntentNames}

NoEvent == [none |-> TRUE]

----------------------------------------------------------------------------
(* Lex v2 request/response helpers *)

TimeToLive == [timeToLiveInSeconds |-> 86400, turnsToLive |-> 20]

PlainText(message) == [contentType |-> "PlainText", content |-> message]

elicit_slot(session_attributes, active_contexts, intent, slot_to_elicit, message) ==
    [sessionState |->
        [activeContexts |-> <<[name |-> "intentContext",
                               contextAttributes |-> active_contexts,
                               timeToLive |-> TimeToLive]>>,
         sessionAttributes |-> session_attributes,
         dialogAction |-> [type |-> "ElicitSlot", slotToElicit |-> slot_to_elicit],
         intent |-> intent],
     messages |-> <<PlainText(message)>>]

ResponseCard ==
    [contentType |-> "ImageResponseCard",
     imageResponseCard |->
        [buttons |-> <<[text |-> "Emergency Helpline", value |-> "Emergency Helpline"],
                       [text |-> "Ask Alex Buddy",
                        value |-> "What kind of questions can Alex Buddy answer?"]>>,
         title |-> "How can I help you?"]]

elicit_intent(intent_request, session_attributes, message) ==
    [sessionState |->
        [dialogAction |-> [type |-> "ElicitIntent"],
         sessionAttributes |-> session_attributes],
     messages |-> <<PlainText(message), ResponseCard>>]

delegate(session_attributes, active_contexts, intent, message) ==
    [sessionState |->
        [activeContexts |-> <<[name |-> "intentContext",
                               contextAttributes |-> active_contexts,
                               timeToLive |-> TimeToLive]>>,
         sessionAttributes |-> session_attributes,
         dialogAction |-> [type |-> "Delegate"],
         intent |-> intent],
     messages |-> <<PlainText(message)>>]

try_ex_first_resolved(value) ==
    IF value # PyNone
    THEN IF value.value.resolvedValues # << >>
         THEN Return(value.value.resolvedValues[1])
         ELSE IF Truthy(value.value.originalValue)
         THEN Return(value.value.originalValue)
         ELSE Return(None)
    ELSE Return(None)

try_ex(value) ==
    IF value # PyNone
    THEN IF value.value.resolvedValues # << >>
         THEN Return(value.value.interpretedValue)
         ELSE IF Truthy(value.value.originalValue)
         THEN Return(value.value.originalValue)
         ELSE Return(None)
    ELSE Return(None)

----------------------------------------------------------------------------
(* Intent fulfillment functions.  Each yields the outcome of the call and   *)
(* the event object as the call leaves it.                                  *)

Left(ret, e) == [ret |-> ret, event |-> e]

verify_identity(intent_request) ==
    LET sessionState == intent_request.sessionState
        intent == sessionState.intent
    IN
    IF ~HasKey(intent, "slots")
    THEN Left(Raise("KeyError", "slots"), intent_request)
    ELSE IF ~HasKey(intent.slots, "UserName")
    THEN Left(Raise("KeyError", "UserName"), intent_request)
    ELSE
    LET username == try_ex(intent.slots.UserName).value
        \* `.get("sessionAttributes") or {}`: the event's own dict when it is
        \* non-empty, a fresh dict otherwise
        shared == HasKey(sessionState, "sessionAttributes")
                  /\ DictTruthy(sessionState.sessionAttributes)
        session_attributes ==
            IF shared THEN sessionState.sessionAttributes ELSE EmptyDict
    IN
    IF Truthy(username)
    THEN LET stored == ("UserName" :> username) @@ session_attributes
             after == IF shared
                      THEN [intent_request EXCEPT
                                !.sessionState.sessionAttributes = stored]
                      ELSE intent_request
         IN Left(Return(elicit_intent(after, stored,
                    <<"Thank you for confirming your username and PIN, ", username,
                      ". How are you doing? Is everything going well?">>)),
                 after)
    ELSE Left(Return(elicit_slot(session_attributes, EmptyDict, intent, "UserName",
                                 "Please provide your username to proceed.")),
              intent_request)

helpline_menu_four ==
    <<"What type of support do you need? Please select one option from below:",
      "1. General Support",
      "2. Suicide Prevention",
      "3. Young People",
      "4. LGBTQ+ Support">>

helpline_menu ==
    <<"What type of support do you need? Please select one option from below:",
      "1. General Support",
      "2. Suicide Prevention",
      "3. Young People",
      "4. LGBTQ+ Support",
      "5. Urgent Help">>

NotUnderstood == <<"I didn't understand that. Please reply with 1, 2, 3, 4, or 5.">>

helpline_message_shout(user_selection) ==
    IF user_selection = "1"
    THEN <<"**General Mental Health Support**:",
           "- Samaritans: Call 116 123 (24/7)",
           "- NHS 111: Call 111 (24/7)">>
    ELSE IF user_selection = "2"
    THEN <<"**Suicide Prevention**:",
           "- National Suicide Prevention Helpline: Call 0800 689 5652",
           "- Papyrus HOPELINEUK: Call 0800 068 4141">>
    ELSE IF user_selection = "3" \/ user_selection = "4"
    THEN <<"**Support for Young People**:",
           "- Childline: Call 0800 1111 (24/7)",
           "- Shout Crisis Text Line: Text 'YM' to 85258">>
    ELSE IF user_selection = "5"
    THEN <<"**Urgent Help**:",
           "- Call 999 for immediate danger",
           "- Visit A&E for emergency mental health support">>
    ELSE NotUnderstood

helpline_message(user_selection) ==
    IF user_selection = "1"
    THEN <<"**General Mental Health Support**:",
           "- Samaritans: Call 116 123 (24/7)",
           "- NHS 111: Call 111 (24/7)">>
    ELSE IF user_selection = "2"
    THEN <<"**Suicide Prevention**:",
           "- National Suicide Prevention Helpline: Call 0800 689 5652",
           "- Papyrus HOPELINEUK: Call 0800 068 4141">>
    ELSE IF user_selection = "3"
    THEN <<"**Support for Young People**:",
           "- Childline: Call 0800 1111 (24/7)",
           "- Shout Crisis Text Line: Text 'YM' to 85258">>
    ELSE IF user_selection = "4"
    THEN <<"**LGBTQ+ Support**:",
           "- Switchboard: Call 0300 330 0630 (10am-10pm)",
           "- Text 'SHOUT' to 85258 (24/7)">>
    ELSE IF user_selection = "5"
    THEN <<"**Urgent Help**:",
           "- Call 999 for immediate danger",
           "- Visit A&E for emergency mental health support">>
    ELSE NotUnderstood

emergency_helpline(intent_request) ==
    LET sessionState == intent_request.sessionState
        \* `.get("sessionAttributes", {})`
        session_attributes ==
            IF HasKey(sessionState, "sessionAttributes")
            THEN sessionState.sessionAttributes ELSE EmptyDict
        intent == sessionState.intent
        \* `intent.get("slots", {})`
        slots == IF HasKey(intent, "slots") THEN intent.slots ELSE EmptyDict
        \* `slots.get("Selection")`
        selection == IF HasKey(slots, "Selection") THEN slots.Selection ELSE PyNone
        user_selection == try_ex(selection).value
    IN
    IF ~Truthy(user_selection)
    THEN Left(Return(
            [sessionState |->
                [dialogAction |-> [type |-> "ElicitSlot", slotToElicit |-> "Selection"],
                 intent |-> intent,
                 sessionAttributes |-> session_attributes],
             messages |-> <<PlainText(helpline_menu)>>]),
            intent_request)
    ELSE Left(Return(
            [sessionState |->
                [dialogAction |-> [type |-> "Close"],
                 intent |->
                    [name |-> intent.name,
                     slots |-> intent.slots,
                     state |-> "Fulfilled",
                     confirmationState |->
                        IF HasKey(intent, "confirmationState")
                        THEN intent.confirmationState ELSE "None"],
                 sessionAttributes |-> session_attributes],
             messages |-> <<PlainText(helpline_message(user_selection))>>]),
            intent_request)


----------------------------------------------------------------------------
(* Agent Invocation Adapter *)

\* Chat({"Human": prompt}, session_id): the memory component records the
\* human turn of the session.
Chat_init(store, prompt, session_id) ==
    [store EXCEPT ![session_id] = Append(@, <<"Human", prompt>>)]

\* chat.set_memory({"Assistant": recap}, session_id): appends the assistant turn.
Chat_set_memory(store, recap, session_id) ==
    [store EXCEPT ![session_id] = Append(@, <<"Assistant", recap>>)]

formatted_prompt(message) ==
    <<"\n\nHuman: Summarize the following within 50 words: ", message, " \n\nAssistant:">>

invoke_agent_return_recap(message, ai_response_recap) == ai_response_recap

\* `return message`
invoke_agent_return(message, ai_response_recap) == message

genai_session_attributes_get_default(intent_request) ==
    IF HasKey(intent_request.sessionState, "sessionAttributes")
    THEN intent_request.sessionState.sessionAttributes
    ELSE EmptyDict

\* genai_intent: `.get("sessionAttributes") or {}`
genai_session_attributes(intent_request) ==
    IF HasKey(intent_request.sessionState, "sessionAttributes")
       /\ DictTruthy(intent_request.sessionState.sessionAttributes)
    THEN intent_request.sessionState.sessionAttributes
    ELSE EmptyDict

----------------------------------------------------------------------------
(* Intents *)

dispatch_closed_table(intent_request) ==
    LET intent_name == intent_request.sessionState.intent.name IN
    IF intent_name = "VerifyIdentity" THEN "verify_identity"
    ELSE IF intent_name = "Emergencyhelpline" THEN "emergency_helpline"
    ELSE IF intent_name = "FallbackIntent" THEN "genai_intent"
    ELSE "unsupported"

\* the handler dispatch() calls; "unsupported" stands for reaching the raise
\* that follows the if/elif/else
dispatch(intent_request) ==
    LET intent_name == intent_request.sessionState.intent.name IN
    IF intent_name = "VerifyIdentity" THEN "verify_identity"
    ELSE IF intent_name = "Emergencyhelpline" THEN "emergency_helpline"
    ELSE "genai_intent"

----------------------------------------------------------------------------
(* State machine of one activation after another *)

NoFrame ==
    [session_attributes |-> PyNone, session_id |-> None, prompt |-> None,
     message |-> None, ai_response_recap |-> None, output |-> None]

EmptyStore == [s \in SessionIds |-> << >>]

RECURSIVE SumLen(_, _)
SumLen(store, S) ==
    IF S = {} THEN 0
    ELSE LET s == CHOOSE x \in S : TRUE IN Len(store[s]) + SumLen(store, S \ {s})

MemorySize(store) == SumLen(store, SessionIds)

Idle ==
    /\ pc = "idle"
    /\ event = NoEvent
    /\ entry = [event |-> NoEvent, memory |-> EmptyStore]
    /\ route = "none"
    /\ frame = NoFrame
    /\ calls = << >>
    /\ result = Pending

Init ==
    /\ Idle
    /\ memory = EmptyStore
    /\ holder = PyNone
    /\ accessed = Pending

\* handler(event, context): the platform hands over one turn event
Handler(e) ==
    /\ pc = "idle"
    /\ MemorySize(memory) + 2 <= MaxMemory
    /\ pc' = "dispatch"
    /\ event' = e
    /\ entry' = [event |-> e, memory |-> memory]
    /\ UNCHANGED <<route, frame, calls, memory, result, holder, accessed>>

Dispatch ==
    /\ pc = "dispatch"
    /\ LET target == dispatch(event) IN
       /\ route' = target
       /\ IF target = "unsupported"
          THEN /\ pc' = "done"
               /\ result' = Raise("Exception",
                                  <<"Intent with name ", event.sessionState.intent.name,
                                    " not supported">>)
          ELSE /\ pc' = target
               /\ UNCHANGED result
    /\ UNCHANGED <<event, entry, frame, calls, memory, holder, accessed>>

VerifyIdentity ==
    /\ pc = "verify_identity"
    /\ LET out == verify_identity(event) IN
       /\ result' = out.ret
       /\ event' = out.event
    /\ pc' = "done"
    /\ UNCHANGED <<entry, route, frame, calls, memory, holder, accessed>>

EmergencyHelpline ==
    /\ pc = "emergency_helpline"
    /\ LET out == emergency_helpline(event) IN
       /\ result' = out.ret
       /\ event' = out.event
    /\ pc' = "done"
    /\ UNCHANGED <<entry, route, frame, calls, memory, holder, accessed>>

\* genai_intent up to the call of invoke_agent, or up to the use of `output`
\* when the guarded branch did not bind it
GenaiIntent ==
    /\ pc = "genai_intent"
    /\ IF event.invocationSource = "DialogCodeHook"
       THEN /\ frame' = [frame EXCEPT
                            !.session_attributes = genai_session_attributes(event),
                            !.session_id = event.sessionId,
                            !.prompt = event.inputTranscript]
            /\ calls' = Append(calls, <<"invoke_agent", event.inputTranscript,
                                        event.sessionId>>)
            /\ pc' = "invoke_agent"
            /\ UNCHANGED result
       ELSE /\ frame' = [frame EXCEPT
                            !.session_attributes = genai_session_attributes(event),
                            !.session_id = event.sessionId]
            /\ result' = Raise("UnboundLocalError", "output")
            /\ pc' = "done"
            /\ UNCHANGED calls
    /\ UNCHANGED <<event, entry, route, memory, holder, accessed>>

InvokeAgentChat ==
    /\ pc = "invoke_agent"
    /\ memory' = Chat_init(memory, frame.prompt, frame.session_id)
    /\ calls' = Append(calls, <<"Chat", frame.prompt, frame.session_id>>)
    /\ pc' = "run"
    /\ UNCHANGED <<event, entry, route, frame, result, holder, accessed>>

LexAgentRun(text) ==
    /\ pc = "run"
    /\ frame' = [frame EXCEPT !.message = text]
    /\ calls' = Append(calls, <<"run", frame.prompt, text>>)
    /\ pc' = "predict"
    /\ UNCHANGED <<event, entry, route, memory, result, holder, accessed>>

ConversationPredict(text) ==
    /\ pc = "predict"
    /\ frame' = [frame EXCEPT !.ai_response_recap = text]
    /\ calls' = Append(calls, <<"predict", formatted_prompt(frame.message), text>>)
    /\ pc' = "set_memory"
    /\ UNCHANGED <<event, entry, route, memory, result, holder, accessed>>

\* the generation service fails: the error propagates out of dispatch
GenerationFails ==
    /\ pc \in {"run", "predict"}
    /\ calls' = Append(calls, <<pc, "failed">>)
    /\ result' = Raise("ServiceError", pc)
    /\ pc' = "done"
    /\ UNCHANGED <<event, entry, route, frame, memory, holder, accessed>>

ChatSetMemory ==
    /\ pc = "set_memory"
    /\ memory' = Chat_set_memory(memory, frame.ai_response_recap, frame.session_id)
    /\ calls' = Append(calls, <<"set_memory", frame.ai_response_recap, frame.session_id>>)
    /\ pc' = "return"
    /\ UNCHANGED <<event, entry, route, frame, result, holder, accessed>>

\* invoke_agent returns and genai_intent wraps the text
GenaiIntentReturn ==
    /\ pc = "return"
    /\ LET output == invoke_agent_return(frame.message, frame.ai_response_recap) IN
       /\ frame' = [frame EXCEPT !.output = output]
       /\ result' = Return(elicit_intent(event, frame.session_attributes, output))
    /\ pc' = "done"
    /\ UNCHANGED <<event, entry, route, calls, memory, holder, accessed>>

\* the activation ends; the next turn starts from a fresh activation
Respond ==
    /\ pc = "done"
    /\ pc' = "idle"
    /\ event' = NoEvent
    /\ entry' = [event |-> NoEvent, memory |-> EmptyStore]
    /\ route' = "none"
    /\ frame' = NoFrame
    /\ calls' = << >>
    /\ result' = Pending
    /\ UNCHANGED <<memory, holder, accessed>>

Next ==
    \/ \E e \in Events : Handler(e)
    \/ Dispatch
    \/ VerifyIdentity
    \/ EmergencyHelpline
    \/ GenaiIntent
    \/ InvokeAgentChat
    \/ \E text \in Texts : LexAgentRun(text)
    \/ \E text \in Texts : ConversationPredict(text)
    \/ GenerationFails
    \/ ChatSetMemory
    \/ GenaiIntentReturn
    \/ Respond

Spec == Init /\ [][Next]_vars

----------------------------------------------------------------------------
(* Direct calls of the Slot Accessor *)

InitTryEx ==
    /\ Idle
    /\ memory = EmptyStore
    /\ holder \in SlotHolders
    /\ accessed = Pending

CallTryEx ==
    /\ accessed = Pending
    /\ accessed' = try_ex(holder)
    /\ UNCHANGED <<pc, event, entry, route, frame, calls, memory, result, holder>>

NextTryEx == CallTryEx

SpecTryEx == InitTryEx /\ [][NextTryEx]_vars


----------------------------------------------------------------------------
(* Vocabulary of the properties *)

DirectiveTypes == {"ElicitSlot", "ElicitIntent", "Delegate", "Close"}
KnownIntents == {"VerifyIdentity", "Emergencyhelpline", "FallbackIntent"}
Literals == {"1", "2", "3", "4", "5"}

Done == pc = "done"
Returned == result.kind = "return"
Raised == result.kind = "raise"
\* the event as handler() received it
Incoming == entry.event
IncomingIntent == Incoming.sessionState.intent
DialogType == result.value.sessionState.dialogAction.type
OutAttributes == result.value.sessionState.sessionAttributes
FirstContent == result.value.messages[1].content

\* the holder of slot k, PyNone when the event carries none
SlotOf(e, k) ==
    IF HasKey(e.sessionState.intent, "slots") /\ HasKey(e.sessionState.intent.slots, k)
    THEN e.sessionState.intent.slots[k]
    ELSE PyNone

\* the session attributes of e, the empty mapping when the key is missing
AttributesOf(e) ==
    IF HasKey(e.sessionState, "sessionAttributes")
    THEN e.sessionState.sessionAttributes
    ELSE EmptyDict

\* the session attributes of e, the empty mapping when there are none
AttributesOrEmpty(e) == IF AttributesOf(e) = PyNone THEN EmptyDict ELSE AttributesOf(e)

\* the value slot k of e yields through the Slot Accessor, None when it yields none
Yield(e, k) ==
    LET got == try_ex(SlotOf(e, k)).value
    IN IF Truthy(got) THEN got ELSE None

Kinds(log) == [i \in DOMAIN log |-> log[i][1]]

Heading(selection) ==
    CASE selection = "1" -> "**General Mental Health Support**:"
      [] selection = "2" -> "**Suicide Prevention**:"
      [] selection = "3" -> "**Support for Young People**:"
      [] selection = "4" -> "**LGBTQ+ Support**:"
      [] selection = "5" -> "**Urgent Help**:"
      [] OTHER -> "I didn't understand that. Please reply with 1, 2, 3, 4, or 5."

----------------------------------------------------------------------------
(* C1 *)

ServiceFailed == \E i \in DOMAIN calls : calls[i][2] = "failed"

\* C1 (as claimed, on the turns it singles out): a dispatch that reaches the
\* fallback handler, whatever the invocationSource, ends by returning one
\* directive whose dialogAction.type is ElicitSlot, ElicitIntent, Delegate or
\* Close; it never ends without one.  (A failure of the generation service is
\* left aside: it is documented to propagate.)
C1_AlwaysOneDirective ==
    (Done /\ route = "genai_intent" /\ ~ServiceFailed) =>
        (Returned /\ DialogType \in DirectiveTypes)

----------------------------------------------------------------------------
(* C2, under SpecTryEx *)

HolderResolved == holder.value.resolvedValues

\* C2 (as claimed): try_ex returns None for an absent holder, the first element
\* of a non-empty resolved-value set, the raw value when the resolved set is
\* empty and a raw value is present, None otherwise, and never raises.
C2_FirstResolved ==
    accessed # Pending =>
        /\ accessed.kind = "return"
        /\ accessed.value =
              IF holder = PyNone THEN None
              ELSE IF HolderResolved # << >> THEN HolderResolved[1]
              ELSE IF Truthy(holder.value.originalValue)
                   THEN holder.value.originalValue
              ELSE None

\* C2 (amended): try_ex returns None for an absent holder; when the resolved-
\* value set is non-empty it returns the holder's interpretedValue field, whatever
\* the first resolved value and the raw value are; when the set is empty it
\* returns the raw originalValue if that is non-empty, and None otherwise.  It
\* raises for none of these holders.
C2_InterpretedValue ==
    accessed # Pending =>
        /\ accessed.kind = "return"
        /\ holder = PyNone => accessed.value = None
        /\ (holder # PyNone /\ HolderResolved # << >>) =>
              accessed.value = holder.value.interpretedValue
        /\ (holder # PyNone /\ HolderResolved = << >>
            /\ Truthy(holder.value.originalValue)) =>
              accessed.value = holder.value.originalValue
        /\ (holder # PyNone /\ HolderResolved = << >>
            /\ ~Truthy(holder.value.originalValue)) =>
              accessed.value = None

\* try_ex has returned an interpretedValue that is neither the first resolved
\* value nor the raw value
C2_Witness ==
    /\ holder # PyNone
    /\ accessed.kind = "return"
    /\ HolderResolved # << >>
    /\ accessed.value # HolderResolved[1]
    /\ accessed.value # holder.value.originalValue
    /\ accessed.value = holder.value.interpretedValue

----------------------------------------------------------------------------
(* C3, C4 *)

\* C3: whenever the intent name is neither VerifyIdentity nor Emergencyhelpline
\* dispatch calls genai_intent, and no dispatch, for any intent name, ends in the
\* "Intent with name ... not supported" error.
C3_FallbackRoute ==
    pc \notin {"idle", "dispatch"} =>
        /\ IncomingIntent.name \notin HandledIntents => route = "genai_intent"
        /\ ~(Raised /\ result.exc = "Exception")

\* an unknown intent name went through genai_intent and got a directive
C3_Witness ==
    /\ Done
    /\ IncomingIntent.name = "BookHotel"
    /\ route = "genai_intent"
    /\ Returned

\* C4 (as claimed): a turn whose intent name is not a supported one ends in a
\* fatal error that identifies the intent name, and returns no directive.
C4_UnknownIntentFatal ==
    (Done /\ IncomingIntent.name \notin KnownIntents) =>
        /\ Raised
        /\ result.exc = "Exception"
        /\ result.arg[2] = IncomingIntent.name

\* C4 (amended): a turn whose intent name is not a supported one is handled by
\* genai_intent like a fallback turn.  It never ends in an error that identifies
\* the intent name: on a DialogCodeHook turn it returns an ElicitIntent directive
\* unless the generation service fails, and on any other invocation source it
\* ends in the UnboundLocalError of the unbound `output`.
C4_UnknownIntentFallsBack ==
    (Done /\ IncomingIntent.name \notin KnownIntents) =>
        /\ route = "genai_intent"
        /\ Returned => DialogType = "ElicitIntent"
        /\ Raised => result.exc \in {"UnboundLocalError", "ServiceError"}
        /\ (Raised /\ result.exc = "UnboundLocalError")
              <=> Incoming.invocationSource # "DialogCodeHook"

\* an unknown intent name ended in the UnboundLocalError, not in the error
\* naming the intent
C4_Witness ==
    /\ Done
    /\ IncomingIntent.name = "BookHotel"
    /\ Incoming.invocationSource = "FulfillmentCodeHook"
    /\ Raised
    /\ result.exc = "UnboundLocalError"

----------------------------------------------------------------------------
(* C5 *)

\* C5 (as claimed): verify_identity returns an ElicitIntent directive whose
\* session attributes hold UserName, equal to the Slot Accessor's value, exactly
\* when the UserName slot yields a value; in every other case, a turn without
\* any UserName slot included, it returns an ElicitSlot directive for UserName
\* with an empty active-context attribute map, and it does not raise.
C5_VerifyIdentity ==
    (Done /\ route = "verify_identity") =>
        LET username == Yield(Incoming, "UserName") IN
        /\ Returned
        /\ IF username # None
           THEN /\ DialogType = "ElicitIntent"
                /\ HasKey(OutAttributes, "UserName")
                /\ OutAttributes.UserName = username
           ELSE /\ DialogType = "ElicitSlot"
                /\ result.value.sessionState.dialogAction.slotToElicit = "UserName"
                /\ result.value.sessionState.activeContexts[1].contextAttributes
                      = EmptyDict

----------------------------------------------------------------------------
(* C6, C7 *)

\* the turn carries a Selection holder with a raw entry, empty or not
SelectionSupplied ==
    /\ SlotOf(Incoming, "Selection") # PyNone
    /\ SlotOf(Incoming, "Selection").value.originalValue # None

\* dispatch returned the Close directive of selection v: the intent fulfilled,
\* the message of v, the intent's name, slots and confirmation state carried over
ClosedWith(v) ==
    /\ Returned
    /\ DialogType = "Close"
    /\ result.value.sessionState.intent.state = "Fulfilled"
    /\ FirstContent[1] = Heading(v)
    /\ v \in Literals <=> FirstContent # NotUnderstood
    /\ \A a, b \in Literals : a # b => helpline_message(a) # helpline_message(b)
    /\ result.value.sessionState.intent.name = IncomingIntent.name
    /\ result.value.sessionState.intent.slots = IncomingIntent.slots
    /\ result.value.sessionState.intent.confirmationState =
          IF HasKey(IncomingIntent, "confirmationState")
          THEN IncomingIntent.confirmationState ELSE "None"

\* C6 (as claimed): whenever a Selection value has been supplied, whatever it is
\* (a literal "1".."5", any other string, an empty entry), emergency_helpline
\* returns a Close directive with intent state Fulfilled and never re-prompts;
\* the literals give five pairwise distinct fixed messages, every other value
\* the not-understood message; name, slots and confirmation state (default
\* "None") are carried over.
C6_SuppliedSelectionCloses ==
    (Done /\ route = "emergency_helpline" /\ SelectionSupplied) =>
        ClosedWith(try_ex(SlotOf(Incoming, "Selection")).value)

\* C6 (amended): whenever the Selection slot yields a non-empty value through
\* the Slot Accessor, whatever that value is, emergency_helpline returns a Close
\* directive with intent state Fulfilled and does not re-prompt; the literals
\* "1".."5" give five pairwise distinct fixed messages, every other non-empty
\* value the not-understood message; name, slots and confirmation state (default
\* "None") are carried over.  A supplied entry that yields an empty value is
\* re-prompted with ElicitSlot.
C6_NonEmptySelectionCloses ==
    (Done /\ route = "emergency_helpline" /\ SelectionSupplied) =>
        LET v == Yield(Incoming, "Selection") IN
        /\ v # None => ClosedWith(v)
        /\ v = None => (Returned /\ DialogType = "ElicitSlot")

\* an unrecognised, non-empty selection closed the intent
C6_Witness ==
    /\ Done
    /\ route = "emergency_helpline"
    /\ SelectionSupplied
    /\ Yield(Incoming, "Selection") = "9"
    /\ Returned
    /\ DialogType = "Close"
    /\ FirstContent = NotUnderstood

\* C7: whenever the emergency-helpline turn has no Selection slot value,
\* emergency_helpline returns an ElicitSlot directive for Selection whose message
\* lists exactly the five options, with the intent equal to the incoming intent
\* and the session attributes equal to the incoming ones.
C7_ElicitsSelection ==
    (Done /\ route = "emergency_helpline" /\ Yield(Incoming, "Selection") = None) =>
        /\ Returned
        /\ DialogType = "ElicitSlot"
        /\ result.value.sessionState.dialogAction.slotToElicit = "Selection"
        /\ Len(FirstContent) = 6
        /\ SubSeq(FirstContent, 2, 6) =
              <<"1. General Support", "2. Suicide Prevention", "3. Young People",
                "4. LGBTQ+ Support", "5. Urgent Help">>
        /\ result.value.sessionState.intent = IncomingIntent
        /\ OutAttributes = AttributesOf(Incoming)

\* a helpline turn without any slots was asked to select, its session
\* attributes handed back
C7_Witness ==
    /\ Done
    /\ route = "emergency_helpline"
    /\ ~HasKey(IncomingIntent, "slots")
    /\ Returned
    /\ DialogType = "ElicitSlot"
    /\ OutAttributes = [k |-> "v"]

----------------------------------------------------------------------------
(* C8 *)

Session == frame.session_id
Before == entry.memory

\* C8: a successful invoke_agent(prompt, session_id) makes its external calls
\* in the order Chat (which records the human turn), generation, summary,
\* set_memory; the human turn is in Turn Memory before the generation call and
\* the assistant turn only after the summary call; the call grows the session's
\* memory by exactly one Assistant record, holding the summary, leaves every
\* other session's memory as it was, and returns the generation call's text.
C8_InvokeAgent ==
    /\ pc \in {"run", "predict", "set_memory"} =>
          /\ memory[Session] = Append(Before[Session], <<"Human", frame.prompt>>)
          /\ \A s \in SessionIds \ {Session} : memory[s] = Before[s]
    /\ pc = "run" => Kinds(calls) = <<"invoke_agent", "Chat">>
    /\ pc = "predict" => Kinds(calls) = <<"invoke_agent", "Chat", "run">>
    /\ pc = "set_memory" => Kinds(calls) = <<"invoke_agent", "Chat", "run", "predict">>
    /\ (pc \in {"return", "done"} /\ route = "genai_intent" /\ frame.output # None) =>
          Kinds(calls) = <<"invoke_agent", "Chat", "run", "predict", "set_memory">>
    /\ (Done /\ route = "genai_intent" /\ Returned) =>
          /\ Kinds(calls) = <<"invoke_agent", "Chat", "run", "predict", "set_memory">>
          /\ memory[Session] =
                Before[Session] \o <<<<"Human", frame.prompt>>, <<"Assistant", calls[4][3]>>>>
          /\ Cardinality({i \in DOMAIN memory[Session] :
                             memory[Session][i][1] = "Assistant"})
                = Cardinality({i \in DOMAIN Before[Session] :
                                  Before[Session][i][1] = "Assistant"}) + 1
          /\ \A s \in SessionIds \ {Session} : memory[s] = Before[s]
          /\ frame.output = calls[3][3]

\* invoke_agent returned a response that differs from its summary, in a
\* session whose memory was not empty
C8_Witness ==
    /\ Done
    /\ route = "genai_intent"
    /\ Returned
    /\ Before[Session] # << >>
    /\ calls[3][3] # calls[4][3]
    /\ frame.output = calls[3][3]
    /\ Len(memory[Session]) = Len(Before[Session]) + 2

----------------------------------------------------------------------------
(* C9, C10 *)

\* C9 (as claimed): dispatch leaves the turn event as it received it; what a
\* handler changes in the session attributes shows in the directive only.
C9_EventReadOnly ==
    Done => event = Incoming

\* C10: on a fallback turn whose invocationSource is DialogCodeHook, genai_intent
\* calls invoke_agent exactly once, with the event's inputTranscript and
\* sessionId, and, invoke_agent having returned, returns an ElicitIntent
\* directive whose first message content is the returned text and whose session
\* attributes are the incoming ones (the empty mapping when there are none).
C10_GenaiIntent ==
    (Done /\ route = "genai_intent" /\ Incoming.invocationSource = "DialogCodeHook") =>
        /\ Cardinality({i \in DOMAIN calls : calls[i][1] = "invoke_agent"}) = 1
        /\ calls[1] = <<"invoke_agent", Incoming.inputTranscript, Incoming.sessionId>>
        /\ Raised => ServiceFailed
        /\ Returned =>
              /\ DialogType = "ElicitIntent"
              /\ FirstContent = frame.output
              /\ frame.output \in Texts
              /\ OutAttributes = AttributesOrEmpty(Incoming)

\* a fallback turn whose session attributes are None got the agent's text and
\* an empty attribute mapping
C10_Witness ==
    /\ Done
    /\ route = "genai_intent"
    /\ Incoming.invocationSource = "DialogCodeHook"
    /\ AttributesOf(Incoming) = PyNone
    /\ Returned
    /\ FirstContent \in Texts
    /\ OutAttributes = EmptyDict

=============================================================================
